---- MODULE Spec2Model ----
(***************************************************************************)
(* A model of src/main.py: the Mathpix upload / poll / download script.    *)
(*                                                                         *)
(* Time is an integer count of clock ticks, TicksPerSecond ticks to the    *)
(* second.  datetime.now() reads the variable now.  The clock advances     *)
(* while the program is blocked: in sleep(POLLING_INTERVAL) by that many   *)
(* seconds, and in an HTTP call by the call's latency (0, or one of        *)
(* Delays for at most MaxSlow calls of a behaviour).                       *)
(*                                                                         *)
(* The external service is nondeterministic: any status code, any status   *)
(* string, any percent_done, or a connection failure (requests raises).    *)
(* Filesystem operations (mkdir, open, write) are assumed to succeed,      *)
(* except for the two reads of the input PDF.                              *)
(***************************************************************************)
EXTENDS Integers, Sequences, FiniteSets

\* ---------------------------------------------------------------- bounds

\* Clock resolution of the model: ticks in one second.
TicksPerSecond == 2

\* How many blocking calls of one behaviour may take longer than zero time.
MaxSlow == 1

\* SpecTwo: how many ticks may pass between and during the two calls.
MaxTicks == 3

\* ----------------------------------------------------- program constants

POLLING_INTERVAL == 2

TIMEOUT == 600

\* Keys of OUTPUT_FORMATS, in the insertion order a for loop visits them.
OUTPUT_FORMATS == <<"mmd", "tex.zip", "html">>

\* The tier boundary of calculate_cost.
TierLimit == 40000

\* ------------------------------------------------------------ environment

\* TIMEOUT in ticks.
Ceiling == TIMEOUT * TicksPerSecond

\* Latencies a slow call may have: one tick, or longer than the ceiling.
Delays == {1, Ceiling + 1}

\* A cap on the clock, above every value a run reaches.
ClockCap == (MaxSlow + 2) * (Ceiling + 1 + POLLING_INTERVAL * TicksPerSecond)

\* HTTP status codes the service answers with.
Codes == {200, 404}

\* Values of the 'status' field: two in-progress ones and the terminal two.
\* "missing" stands for a status payload without a 'status' key.
Statuses == {"split", "processing", "completed", "error", "missing"}

Terminal == {"completed", "error"}

\* An optional value: None, or Some(x).
None == <<>>
Some(x) == <<x>>

\* Values of percent_done in a status payload (None: the key is missing).
Percents == {None, Some(0), Some(100)}

\* Page counts PyPDF2 may report for the input of a run.
RunPages == {0, TierLimit + 1}

\* Inputs of calculate_cost for SpecCost.
CostPages == (-3 .. 60) \cup ((TierLimit - 30) .. (TierLimit + 30))

\* The download_results calls: call 1 is the run's, call 2 is another
\* invocation on the same output directory (SpecTwo).
Calls == {1, 2}

VARIABLES
    pc,             \* position of the run
    has_creds,      \* MATHPIX_APP_ID and MATHPIX_APP_KEY are both set
    now,            \* the wall clock, in ticks
    slow,           \* slow calls so far
    run_start,      \* clock value when the run started
    start_time,     \* wait_for_processing: start_time (None before)
    upload_code,    \* process_pdf: response.status_code (None before)
    pdf_id,         \* process_pdf's result (None before)
    status,         \* wait_for_processing: status['status'] of the last poll
    pbar,           \* wait_for_processing: pbar (Some(pbar.n) while a bar
                    \* is open; None before tqdm(...) and after close())
    uploads,        \* POSTs issued
    polls,          \* status GETs issued
    sleeps,         \* sleep(POLLING_INTERVAL) calls made
    err,            \* the exception that ended the run ("none" if none)
    num_pages,      \* len(pdf_reader.pages) (None before)
    estimated_cost, \* calculate_cost's result in thousandths (None before)
    exit_code,      \* the process's exit code (None while running)
    dl,             \* per call: position inside download_results
    timestamp,      \* per call: timestamp (None before)
    i,              \* per call: formats of OUTPUT_FORMATS already attempted
    codes,          \* per call: status codes received, in order
    outputs,        \* per call: outputs (format -> path)
    fs              \* files on disk: set of [path, by] (by: the writing call)

runVars == <<pc, has_creds, run_start, upload_code, pdf_id, uploads, err,
             num_pages, estimated_cost, exit_code>>
waitVars == <<start_time, status, pbar, polls, sleeps>>
dlVars == <<dl, timestamp, i, codes, outputs, fs>>
vars == <<runVars, waitVars, dlVars, now, slow>>

\* ------------------------------------------------------------- helpers

\* dict.get(key, default) on an optional field.
Get(field, default) == IF field = None THEN default ELSE field[1]

\* A blocking call takes base ticks plus d more: d is 0, or a delay charged
\* to the slow budget.
Block(base, d) ==
    /\ d \in {0} \cup Delays
    /\ d > 0 => slow < MaxSlow
    /\ now + base + d <= ClockCap
    /\ now' = now + base + d
    /\ slow' = IF d > 0 THEN slow + 1 ELSE slow

\* The run ends with exception e.
Raise(e) ==
    /\ pc' = "Failed"
    /\ err' = e

\* datetime.strftime('%Y%m%d_%H%M%S'): the clock cut to whole seconds.
strftime(t) == t \div TicksPerSecond

\* output_dir / f"notes_{timestamp}.{fmt}", output_dir being the timestamp
\* subdirectory.
OutputPath(ts, fmt) == [dir |-> ts, name |-> <<"notes", ts, fmt>>]

\* open(path, 'wb') and write by call c: the file is created or replaced.
WriteFile(files, path, c) ==
    {e \in files : e.path # path} \cup {[path |-> path, by |-> c]}

\* ---------------------------------------------------- MathpixProcessor

\* __init__: credentials from the environment.
MathpixProcessor_init ==
    /\ pc = "Idle"
    /\ IF has_creds
         THEN pc' = "process_pdf" /\ err' = err
         ELSE Raise("EnvironmentError")
    /\ run_start' = now
    /\ UNCHANGED <<has_creds, upload_code, pdf_id, uploads, num_pages,
                   estimated_cost, exit_code, waitVars, dlVars, now, slow>>

\* Mutant of UploadOk: the status code of the upload is not looked at.
UploadOk_unchecked(code) == TRUE

\* process_pdf: the upload's status code is a success.
UploadOk(code) == code = 200

\* process_pdf: open the PDF and issue the POST.
process_pdf_post ==
    /\ pc = "process_pdf"
    /\ \E readable \in BOOLEAN :
         IF readable
           THEN pc' = "upload_wait" /\ uploads' = uploads + 1 /\ err' = err
           ELSE Raise("FileNotFoundError") /\ uploads' = uploads
    /\ UNCHANGED <<has_creds, run_start, upload_code, pdf_id, num_pages,
                   estimated_cost, exit_code, waitVars, dlVars, now, slow>>

\* process_pdf: the POST's response (has_id: the body holds 'pdf_id').
process_pdf_response ==
    /\ pc = "upload_wait"
    /\ \E code \in Codes, has_id \in BOOLEAN, d \in {0} \cup Delays :
         /\ Block(0, d)
         /\ upload_code' = Some(code)
         /\ IF ~UploadOk(code)
              THEN Raise("Exception") /\ pdf_id' = pdf_id
              ELSE IF ~has_id
                THEN Raise("KeyError") /\ pdf_id' = pdf_id
                ELSE pdf_id' = Some("job") /\ pc' = "wait_start" /\ err' = err
    /\ UNCHANGED <<has_creds, run_start, uploads, num_pages, estimated_cost,
                   exit_code, waitVars, dlVars>>

\* process_pdf: requests.post raises (no response).
process_pdf_no_response ==
    /\ pc = "upload_wait"
    /\ Raise("ConnectionError")
    /\ UNCHANGED <<has_creds, run_start, upload_code, pdf_id, uploads,
                   num_pages, estimated_cost, exit_code, waitVars, dlVars,
                   now, slow>>

\* Mutant of TimedOut: the elapsed seconds are compared with TIMEOUT taken
\* as milliseconds.
TimedOut_ms(elapsed) == elapsed > Ceiling * 1000

\* Mutant of TimedOut: the test is not strict.
TimedOut_inclusive(elapsed) == elapsed >= Ceiling

\* wait_for_processing: the loop's timeout test.
TimedOut(elapsed) == elapsed > Ceiling

\* wait_for_processing: start_time = datetime.now(); pbar = None.
wait_for_processing_start ==
    /\ pc = "wait_start"
    /\ start_time' = Some(now)
    /\ pbar' = None
    /\ pc' = "wait_check"
    /\ UNCHANGED <<has_creds, run_start, upload_code, pdf_id, uploads, err,
                   num_pages, estimated_cost, exit_code, status, polls,
                   sleeps, dlVars, now, slow>>

\* wait_for_processing: the head of the loop, up to issuing the GET.
wait_for_processing_check ==
    /\ pc = "wait_check"
    /\ IF TimedOut(now - start_time[1])
         THEN Raise("TimeoutError") /\ polls' = polls
         ELSE pc' = "wait_get" /\ polls' = polls + 1 /\ err' = err
    /\ UNCHANGED <<has_creds, run_start, upload_code, pdf_id, uploads,
                   num_pages, estimated_cost, exit_code, start_time, status,
                   pbar, sleeps, dlVars, now, slow>>

\* Mutant of PollOutcome: 'completed' closes the bar but does not break.
PollOutcome_no_break(st, percent) ==
    IF st = "error" THEN "raise" ELSE "sleep"

\* Mutant of PollOutcome: 100 percent counts as done.
PollOutcome_percent(st, percent) ==
    IF st = "completed" \/ percent = Some(100) THEN "return"
    ELSE IF st = "error" THEN "raise"
    ELSE "sleep"

\* wait_for_processing: what the loop does with a status payload:
\* "return" (break), "raise", or "sleep".
PollOutcome(st, percent) ==
    IF st = "completed" THEN "return"
    ELSE IF st = "error" THEN "raise"
    ELSE "sleep"

\* wait_for_processing: the GET's response.
wait_for_processing_response ==
    /\ pc = "wait_get"
    /\ \E st \in Statuses, percent \in Percents, d \in {0} \cup Delays :
         /\ Block(0, d)
         /\ status' = st
         /\ IF st = "missing"
              THEN Raise("KeyError") /\ pbar' = pbar
              ELSE CASE PollOutcome(st, percent) = "return" ->
                          pc' = "wait_returned" /\ err' = err /\ pbar' = None
                     [] PollOutcome(st, percent) = "raise" ->
                          Raise("ProcessingError") /\ pbar' = None
                     [] OTHER ->
                          /\ pbar' = Some(Get(percent, 0))
                          /\ pc' = "wait_sleep"
                          /\ err' = err
    /\ UNCHANGED <<has_creds, run_start, upload_code, pdf_id, uploads,
                   num_pages, estimated_cost, exit_code, start_time, polls,
                   sleeps, dlVars>>

\* wait_for_processing: requests.get raises (no response).
wait_for_processing_no_response ==
    /\ pc = "wait_get"
    /\ Raise("ConnectionError")
    /\ UNCHANGED <<has_creds, run_start, upload_code, pdf_id, uploads,
                   num_pages, estimated_cost, exit_code, start_time, status,
                   pbar, polls, sleeps, dlVars, now, slow>>

\* wait_for_processing: sleep(POLLING_INTERVAL), which may oversleep.
wait_for_processing_sleep ==
    /\ pc = "wait_sleep"
    /\ \E d \in {0} \cup Delays : Block(POLLING_INTERVAL * TicksPerSecond, d)
    /\ sleeps' = sleeps + 1
    /\ pc' = "wait_check"
    /\ UNCHANGED <<has_creds, run_start, upload_code, pdf_id, uploads, err,
                   num_pages, estimated_cost, exit_code, start_time, status,
                   pbar, polls, dlVars>>

\* Mutant of DownloadOk: every response is written to disk.
DownloadOk_any(code) == TRUE

\* download_results: the response counts as a successful download.
DownloadOk(code) == code = 200

\* download_results: timestamp, the output directory (mkdir), outputs = {}.
download_results_start(c) ==
    /\ dl[c] = "start"
    /\ timestamp' = [timestamp EXCEPT ![c] = Some(strftime(now))]
    /\ i' = [i EXCEPT ![c] = 0]
    /\ codes' = [codes EXCEPT ![c] = <<>>]
    /\ outputs' = [outputs EXCEPT ![c] = <<>>]
    /\ dl' = [dl EXCEPT ![c] = "loop"]
    /\ UNCHANGED <<runVars, waitVars, fs, now, slow>>

\* download_results: the for loop takes the next format and issues its GET,
\* or is exhausted and the call returns outputs.
download_results_next(c) ==
    /\ dl[c] = "loop"
    /\ dl' = [dl EXCEPT ![c] = IF i[c] < Len(OUTPUT_FORMATS) THEN "get"
                                                             ELSE "returned"]
    /\ UNCHANGED <<runVars, waitVars, timestamp, i, codes, outputs, fs, now,
                   slow>>

\* download_results: the GET's response for format OUTPUT_FORMATS[i + 1].
download_results_response(c) ==
    /\ dl[c] = "get"
    /\ \E code \in Codes, d \in {0} \cup Delays :
         LET fmt == OUTPUT_FORMATS[i[c] + 1]
             output_path == OutputPath(timestamp[c][1], fmt)
         IN /\ Block(0, d)
            /\ codes' = [codes EXCEPT ![c] = Append(@, code)]
            /\ IF DownloadOk(code)
                 THEN /\ fs' = WriteFile(fs, output_path, c)
                      /\ outputs' = [outputs EXCEPT ![c] =
                            [f \in DOMAIN @ \cup {fmt} |->
                                IF f = fmt THEN output_path ELSE @[f]]]
                 ELSE UNCHANGED <<fs, outputs>>
    /\ i' = [i EXCEPT ![c] = @ + 1]
    /\ dl' = [dl EXCEPT ![c] = "loop"]
    /\ UNCHANGED <<runVars, waitVars, timestamp>>

\* download_results: requests.get raises (no response).
download_results_no_response(c) ==
    /\ dl[c] = "get"
    /\ dl' = [dl EXCEPT ![c] = "raised"]
    /\ UNCHANGED <<runVars, waitVars, timestamp, i, codes, outputs, fs, now,
                   slow>>

\* Mutant of calculate_cost: the tier boundary is exclusive.
calculate_cost_exclusive(n) ==
    IF n < TierLimit THEN n * 25 ELSE n * 10

\* calculate_cost, in thousandths of a dollar (0.025 = 25, 0.01 = 10).
calculate_cost(n) ==
    IF n <= TierLimit THEN n * 25 ELSE n * 10

\* ----------------------------------------------- process_lecture_notes

\* wait_for_processing returned: call download_results.
call_download_results ==
    /\ pc = "wait_returned"
    /\ pc' = "download_results"
    /\ dl' = [dl EXCEPT ![1] = "start"]
    /\ UNCHANGED <<has_creds, run_start, upload_code, pdf_id, uploads, err,
                   num_pages, estimated_cost, exit_code, waitVars, timestamp,
                   i, codes, outputs, fs, now, slow>>

\* download_results returned, or its exception passes through.
return_download_results ==
    /\ pc = "download_results"
    /\ dl[1] \in {"returned", "raised"}
    /\ IF dl[1] = "returned"
         THEN pc' = "count_pages" /\ err' = err
         ELSE Raise("ConnectionError")
    /\ UNCHANGED <<has_creds, run_start, upload_code, pdf_id, uploads,
                   num_pages, estimated_cost, exit_code, waitVars, dlVars,
                   now, slow>>

\* The page count of the input PDF, read with PyPDF2 (which may fail).
count_pages ==
    /\ pc = "count_pages"
    /\ \/ \E n \in RunPages :
            /\ num_pages' = Some(n)
            /\ pc' = "calculate_cost"
            /\ err' = err
       \/ Raise("PdfReadError") /\ num_pages' = num_pages
    /\ UNCHANGED <<has_creds, run_start, upload_code, pdf_id, uploads,
                   estimated_cost, exit_code, waitVars, dlVars, now, slow>>

\* estimated_cost = processor.calculate_cost(num_pages), and the report.
estimate_cost ==
    /\ pc = "calculate_cost"
    /\ estimated_cost' = Some(calculate_cost(num_pages[1]))
    /\ pc' = "Done"
    /\ UNCHANGED <<has_creds, run_start, upload_code, pdf_id, uploads, err,
                   num_pages, exit_code, waitVars, dlVars, now, slow>>

\* Mutant of ExitCode: the except clause exits with 0 as well.
ExitCode_zero(failed) == 0

\* __main__: sys.exit(0) after the run, sys.exit(1) in the except clause.
ExitCode(failed) == IF failed THEN 1 ELSE 0

\* __main__: the process exits.
main_exit ==
    /\ pc \in {"Done", "Failed"}
    /\ exit_code = None
    /\ exit_code' = Some(ExitCode(pc = "Failed"))
    /\ UNCHANGED <<pc, has_creds, run_start, upload_code, pdf_id, uploads,
                   err, num_pages, estimated_cost, waitVars, dlVars, now,
                   slow>>

\* Wall-clock time passes between the steps of independent invocations.
Tick ==
    /\ now < MaxTicks
    /\ now' = now + 1
    /\ UNCHANGED <<runVars, waitVars, dlVars, slow>>

\* --------------------------------------------------------- specifications

\* What every specification starts from: nothing has happened yet.
InitCommon ==
    /\ run_start = 0
    /\ start_time = None
    /\ pbar = None
    /\ polls = 0
    /\ sleeps = 0
    /\ err = "none"
    /\ estimated_cost = None
    /\ exit_code = None
    /\ timestamp = [c \in Calls |-> None]
    /\ i = [c \in Calls |-> 0]
    /\ codes = [c \in Calls |-> <<>>]
    /\ outputs = [c \in Calls |-> <<>>]
    /\ fs = {}

\* One run of the script, from process start to exit.
Init ==
    /\ InitCommon
    /\ now = 0
    /\ pc = "Idle"
    /\ has_creds \in BOOLEAN
    /\ slow = 0
    /\ uploads = 0
    /\ upload_code = None
    /\ pdf_id = None
    /\ status = "none"
    /\ num_pages = None
    /\ dl = [c \in Calls |-> "idle"]

Next ==
    \/ MathpixProcessor_init
    \/ process_pdf_post
    \/ process_pdf_response
    \/ process_pdf_no_response
    \/ wait_for_processing_start
    \/ wait_for_processing_check
    \/ wait_for_processing_response
    \/ wait_for_processing_no_response
    \/ wait_for_processing_sleep
    \/ call_download_results
    \/ download_results_start(1)
    \/ download_results_next(1)
    \/ download_results_response(1)
    \/ download_results_no_response(1)
    \/ return_download_results
    \/ count_pages
    \/ estimate_cost
    \/ main_exit

Spec == Init /\ [][Next]_vars

\* wait_for_processing called on its own with a job id, at some clock
\* value, against a service that answers every poll it is sent.
WaitInit ==
    /\ InitCommon
    /\ now \in {0, 2 * TicksPerSecond + 1}
    /\ pc = "wait_start"
    /\ has_creds = TRUE
    /\ slow = 0
    /\ uploads = 1
    /\ upload_code = Some(200)
    /\ pdf_id = Some("job")
    /\ status = "none"
    /\ num_pages = None
    /\ dl = [c \in Calls |-> "idle"]

WaitNext ==
    \/ wait_for_processing_start
    \/ wait_for_processing_check
    \/ wait_for_processing_response
    \/ wait_for_processing_no_response
    \/ wait_for_processing_sleep

\* The interpreter runs the next statement, sleep returns, and every GET
\* ends (with a response or an exception).
WaitSpec == WaitInit /\ [][WaitNext]_vars /\ WF_vars(WaitNext)

\* Two invocations of download_results on the same output directory, for a
\* completed job, interleaved in any way while the wall clock ticks.
TwoInit ==
    /\ InitCommon
    /\ now = 0
    /\ pc = "download_results"
    /\ has_creds = TRUE
    /\ slow = MaxSlow
    /\ uploads = 1
    /\ upload_code = Some(200)
    /\ pdf_id = Some("job")
    /\ status = "completed"
    /\ num_pages = None
    /\ dl = [c \in Calls |-> "start"]

TwoNext ==
    \/ Tick
    \/ \E c \in Calls :
         \/ download_results_start(c)
         \/ download_results_next(c)
         \/ download_results_response(c)
         \/ download_results_no_response(c)

SpecTwo == TwoInit /\ [][TwoNext]_vars

\* calculate_cost applied to a page count.
CostInit ==
    /\ InitCommon
    /\ now = 0
    /\ pc = "calculate_cost"
    /\ has_creds = TRUE
    /\ slow = 0
    /\ uploads = 1
    /\ upload_code = Some(200)
    /\ pdf_id = Some("job")
    /\ status = "completed"
    /\ num_pages \in {Some(n) : n \in CostPages}
    /\ dl = [c \in Calls |-> "idle"]

CostNext == estimate_cost

SpecCost == CostInit /\ [][CostNext]_vars

\* ----------------------------------------------------------------- claims

\* The stage of the run's state machine a position belongs to.
Stage(p) ==
    CASE p = "Idle" -> "Idle"
      [] p \in {"process_pdf", "upload_wait"} -> "Uploading"
      [] p \in {"wait_start", "wait_check", "wait_get", "wait_sleep",
                "wait_returned"} -> "Polling"
      [] p \in {"download_results", "count_pages", "calculate_cost"} ->
            "Downloading"
      [] OTHER -> p

StageOrder == <<"Idle", "Uploading", "Polling", "Downloading", "Done">>

\* Download GETs call c has issued so far.
DownloadsIssued(c) == i[c] + (IF dl[c] \in {"get", "raised"} THEN 1 ELSE 0)

\* Time since wait_for_processing took start_time.
Elapsed == now - start_time[1]

InLoop == pc \in {"wait_check", "wait_get", "wait_sleep"}

C1_State ==
    /\ uploads <= 1
    /\ polls > 0 => uploads = 1 /\ upload_code = Some(200) /\ pdf_id # None
    /\ DownloadsIssued(1) > 0 => polls > 0 /\ status = "completed"
    /\ DownloadsIssued(1) <= Len(OUTPUT_FORMATS)
    /\ (upload_code # None /\ upload_code # Some(200)) => pc = "Failed"
    /\ status = "error" => pc = "Failed"
    /\ err = "TimeoutError" => pc = "Failed"
    /\ pc = "Failed" => estimated_cost = None
    /\ (pc = "Failed" /\ err \in {"Exception", "KeyError"} /\ status = "none")
          => polls = 0 /\ DownloadsIssued(1) = 0
    /\ (pc = "Failed" /\ err \in {"ProcessingError", "TimeoutError"})
          => DownloadsIssued(1) = 0

C1_Step ==
    /\ Stage(pc') # Stage(pc) =>
          \/ pc' = "Failed"
          \/ \E k \in 1 .. (Len(StageOrder) - 1) :
                Stage(pc) = StageOrder[k] /\ Stage(pc') = StageOrder[k + 1]
    /\ uploads' # uploads =>
          /\ uploads = 0 /\ polls = 0 /\ DownloadsIssued(1) = 0
          /\ Stage(pc') = "Uploading"
    /\ polls' # polls =>
          /\ polls' = polls + 1
          /\ Stage(pc) = "Polling" /\ Stage(pc') = "Polling"
          /\ DownloadsIssued(1) = 0
    /\ DownloadsIssued(1)' # DownloadsIssued(1) =>
          /\ DownloadsIssued(1)' = DownloadsIssued(1) + 1
          /\ Stage(pc) = "Downloading" /\ Stage(pc') = "Downloading"
    /\ (pc = "wait_check" /\ Elapsed > Ceiling /\ pc' # pc) =>
          pc' = "Failed" /\ polls' = polls
    /\ pc = "Failed" =>
          UNCHANGED <<pc, err, uploads, polls, sleeps, dl, i, codes, outputs,
                      fs, num_pages, estimated_cost>>

\* C1: a run goes Idle -> Uploading -> Polling -> Downloading -> Done or
\* from any stage to Failed; it issues one upload, then status polls (only
\* with a job id from a 200 upload), then the format downloads (only after a
\* poll saw 'completed'); a non-200 upload, a status 'error' and a timeout
\* put the run in Failed, and in Failed no upload, poll, sleep, download or
\* cost estimate is ever performed again.
C1_RunOrder == []C1_State /\ [][C1_Step]_vars

\* A complete run: several polls, all three downloads, the cost estimate.
C1_Witness ==
    /\ pc = "Done"
    /\ polls > 1
    /\ DownloadsIssued(1) = Len(OUTPUT_FORMATS)
    /\ estimated_cost # None

C2_State ==
    /\ status \in Terminal => ~InLoop /\ sleeps = polls - 1
    /\ status = "completed" => pc = "wait_returned" /\ err = "none"
    /\ status = "error" => pc = "Failed" /\ err = "ProcessingError"
    /\ pc = "wait_returned" => status = "completed"
    /\ err = "ProcessingError" => status = "error"

C2_Step ==
    status \in Terminal => UNCHANGED <<pc, status, polls, sleeps, err>>

\* C2: wait_for_processing ends at the first poll that reports a terminal
\* status, returning on 'completed' and raising the processing error on
\* 'error'; by then it has slept once per earlier poll (none for a first
\* poll), and afterwards it neither sleeps nor polls nor changes state.
C2_EndsAtFirstTerminal ==
    /\ []C2_State
    /\ [][C2_Step]_vars

\* The service answers the first poll with 'completed'.
C2_Witness ==
    /\ pc = "wait_returned"
    /\ status = "completed"
    /\ polls = 1
    /\ sleeps = 0

\* Polls a call can issue: one at elapsed 0 and one after each whole
\* POLLING_INTERVAL up to TIMEOUT.
MaxPolls == TIMEOUT \div POLLING_INTERVAL + 1

C3_State ==
    /\ polls <= MaxPolls
    /\ sleeps <= MaxPolls
    /\ err = "TimeoutError" =>
          pc = "Failed" /\ Elapsed > Ceiling /\ status \notin Terminal
    /\ (pc = "Failed" /\ status \in {"none", "split", "processing"}) =>
          err \in {"TimeoutError", "ConnectionError"}

\* C3: wait_for_processing always ends; when every poll is answered with a
\* non-terminal status it ends with TimeoutError, raised with the elapsed
\* time above TIMEOUT, after at most MaxPolls polls.
C3_TimesOut ==
    /\ []C3_State
    /\ <>(\/ status \in Terminal \cup {"missing"}
          \/ err = "ConnectionError"
          \/ err = "TimeoutError")

\* The service never reports a terminal status and the call times out.
C3_Witness ==
    /\ pc = "Failed"
    /\ err = "TimeoutError"
    /\ status = "processing"
    /\ polls = MaxPolls
    /\ Elapsed > Ceiling

\* The formats among the first Len(cs) whose download answered 200.
Succeeded(cs) ==
    {OUTPUT_FORMATS[k] : k \in {j \in 1 .. Len(cs) : cs[j] = 200}}

C4_State ==
    \A c \in Calls :
       /\ dl[c] \in {"loop", "get", "returned", "raised"} =>
             /\ Len(codes[c]) = i[c]
             /\ DOMAIN outputs[c] = Succeeded(codes[c])
             /\ \A f \in DOMAIN outputs[c] :
                   /\ outputs[c][f] = OutputPath(timestamp[c][1], f)
                   /\ outputs[c][f].dir = timestamp[c][1]
                   /\ \E e \in fs : e.path = outputs[c][f]
       /\ dl[c] = "returned" => i[c] = Len(OUTPUT_FORMATS)
       /\ dl[c] = "raised" => i[c] < Len(OUTPUT_FORMATS)

C4_Step ==
    \A c \in Calls :
       codes[c]' # codes[c] =>
          /\ Len(codes[c]') = Len(codes[c]) + 1
          /\ i[c]' = i[c] + 1
          /\ dl[c]' = "loop"

\* C4: download_results attempts the formats of OUTPUT_FORMATS once each, in
\* order; whatever status code an attempt gets, the call goes on to the next
\* format and does not raise; the returned outputs map exactly the formats
\* answered with 200, each to its file in the call's timestamp directory.
C4_PerFormatDownloads == []C4_State /\ [][C4_Step]_vars

\* Three formats, the second one answered with a non-200 code.
C4_Witness ==
    /\ dl[1] = "returned"
    /\ codes[1] = <<200, 404, 200>>
    /\ DOMAIN outputs[1] = {"mmd", "html"}

\* C5: every file a call of download_results wrote is still that call's
\* file (no other call replaced it), and two calls that both returned used
\* different timestamp subdirectories.
C5_RunsNeverCollide ==
    /\ \A c \in Calls : \A f \in DOMAIN outputs[c] :
          [path |-> outputs[c][f], by |-> c] \in fs
    /\ (dl[1] = "returned" /\ dl[2] = "returned") =>
          timestamp[1] # timestamp[2]

C6_State ==
    /\ exit_code # None => pc \in {"Done", "Failed"}
    /\ exit_code = Some(0) => pc = "Done" /\ err = "none"
    /\ (exit_code # None /\ pc = "Done") => exit_code = Some(0)
    /\ (exit_code # None /\ pc = "Failed") => exit_code = Some(1)
    /\ pc = "Failed" <=> err # "none"
    /\ (~has_creds /\ pc # "Idle") =>
          pc = "Failed" /\ err = "EnvironmentError" /\ uploads = 0
    /\ (upload_code # None /\ upload_code # Some(200)) =>
          pc = "Failed" /\ err = "Exception"
    /\ status = "error" => pc = "Failed" /\ err = "ProcessingError"
    /\ err = "TimeoutError" => pc = "Failed"
    /\ uploads <= 1
    /\ (pc = "Failed" /\ dl[1] \in {"loop", "get", "returned"}) =>
          err = "PdfReadError"
    /\ (pc = "Failed" /\ dl[1] = "raised") => err = "ConnectionError"

C6_Step ==
    /\ pc = "Failed" => UNCHANGED <<pc, err, uploads, polls, sleeps, dl, i>>
    /\ exit_code # None => UNCHANGED vars

\* C6: a missing credential, a non-200 upload, a job error and a polling
\* timeout each end the run in Failed, nothing is retried, and the process
\* exits with 1; it exits with 0 exactly when the run reached Done; non-200
\* downloads, even of every format, never fail the run.
C6_ExitCodes == []C6_State /\ [][C6_Step]_vars

\* Every download failed and the process still exits with 0.
C6_Witness ==
    /\ exit_code = Some(0)
    /\ codes[1] = <<404, 404, 404>>
    /\ outputs[1] = <<>>

\* C7: calculate_cost(n) is 25 n thousandths for n <= 40000 (negative n
\* included, unvalidated) and 10 n thousandths above; 0 pages cost 0 and
\* 40000 pages cost 1000.
C7_TwoTierCost ==
    estimated_cost # None =>
       LET n == num_pages[1]
           cost == estimated_cost[1]
       IN /\ n <= 40000 => cost = 25 * n
          /\ n > 40000 => cost = 10 * n
          /\ n = 40000 => cost = 1000 * 1000
          /\ n = 40001 => cost = 400010
          /\ n = 0 => cost = 0
          /\ n < 0 => cost < 0

\* The cost at the inclusive tier boundary.
C7_Witness ==
    /\ num_pages = Some(40000)
    /\ estimated_cost = Some(1000000)

C8_Step ==
    (/\ now - run_start > Ceiling
     /\ pc \notin {"Done", "Failed"}
     /\ <<pc, dl>>' # <<pc, dl>>) => pc' = "Failed"

\* C8: once the time since the run started exceeds TIMEOUT, the next thing
\* an unfinished run does is fail, whichever stage it is in.
C8_RunBoundedByCeiling == [][C8_Step]_vars

C9_State ==
    /\ (pbar = Some(100) /\ pc = "wait_sleep") => status \notin Terminal
    /\ pc = "wait_returned" => status = "completed"
    /\ err = "TimeoutError" => Elapsed > Ceiling

C9_Step ==
    (pc = "wait_get" /\ pc' # pc) =>
       /\ pc' = CASE err' = "ConnectionError" -> "Failed"
                  [] err' # "ConnectionError" /\ status' = "completed" ->
                        "wait_returned"
                  [] err' # "ConnectionError" /\ status' \in {"error", "missing"}
                        -> "Failed"
                  [] OTHER -> "wait_sleep"
       /\ UNCHANGED <<polls, sleeps, start_time>>

\* C9: what wait_for_processing does after a poll is decided by the status
\* value alone (return on 'completed', raise on 'error', sleep and poll
\* again otherwise), whatever percent_done says: 100% with a non-terminal
\* status keeps polling, and 0% throughout ends in TimeoutError.
C9_ProgressIsReportingOnly == []C9_State /\ [][C9_Step]_vars

\* The service reported 0% (or nothing) on every poll up to the ceiling.
C9_Witness ==
    /\ err = "TimeoutError"
    /\ pbar = Some(0)
    /\ polls = MaxPolls

C10_State ==
    /\ pc = "wait_get" => Elapsed <= Ceiling
    /\ (err = "TimeoutError" /\ slow = 0) =>
          /\ polls = MaxPolls
          /\ polls = 301
          /\ sleeps = polls
          /\ Elapsed = Ceiling + POLLING_INTERVAL * TicksPerSecond
    /\ err = "TimeoutError" => status # "completed" /\ pc = "Failed"

C10_Step ==
    /\ (pc = "wait_check" /\ Elapsed <= Ceiling /\ pc' # pc) =>
          pc' = "wait_get" /\ polls' = polls + 1
    /\ (pc = "wait_check" /\ Elapsed > Ceiling /\ pc' # pc) =>
          pc' = "Failed" /\ err' = "TimeoutError" /\ polls' = polls

\* C10: the timeout test comes before each poll and is strict: a poll is
\* issued exactly when the elapsed time is at most TIMEOUT (at TIMEOUT too);
\* with no latency a never-terminal service gets TIMEOUT / POLLING_INTERVAL
\* + 1 = 301 polls and then TimeoutError, with no further poll that could
\* see 'completed'.
C10_StrictTimeoutBeforePoll == []C10_State /\ [][C10_Step]_vars

\* The last poll, issued with the elapsed time equal to TIMEOUT.
C10_Witness ==
    /\ pc = "wait_get"
    /\ Elapsed = Ceiling
    /\ polls = MaxPolls

====
